---- MODULE Spec2Model ----
\* Model of the customer ledger of clientes.py (class SistemaClientes, the
\* price configuration dialogue and the interactive menu loop).
\*
\* Representation choices:
\*   - a Python str is a sequence of one-character strings, so that strip(),
\*     lower(), title(), str(int) and int(str) are computed, not assumed;
\*   - a Python dict is a sequence of entries in insertion order (dicts keep
\*     insertion order, and the code depends on it when it iterates);
\*   - weights are whole kilograms and prices are tenths of a currency unit
\*     per kilogram (2.5 is 25), so that every amount is an exact integer;
\*   - the optional precio_kg is <<>> for None and <<p>> for a value.
EXTENDS Integers, Sequences, FiniteSets, TLC

VARIABLES clientes, precios_materiales, archivo, salida, pc

vars == <<clientes, precios_materiales, archivo, salida, pc>>

\* ---------------------------------------------------------------- bounds
MaxClientes == 2
MaxCompras == 2

\* ------------------------------------------------------------- str methods
Minusculas == <<"a","b","c","d","e","f","g","h","i","j","k","l","m",
                "n","o","p","q","r","s","t","u","v","w","x","y","z">>
Mayusculas == <<"A","B","C","D","E","F","G","H","I","J","K","L","M",
                "N","O","P","Q","R","S","T","U","V","W","X","Y","Z">>
Digitos == <<"0","1","2","3","4","5","6","7","8","9">>
Espacios == {" ", "\t"}

Rango(s) == {s[i] : i \in DOMAIN s}
Indice(c, alfabeto) == CHOOSE i \in DOMAIN alfabeto : alfabeto[i] = c

LetrasMinusculas == Rango(Minusculas)
LetrasMayusculas == Rango(Mayusculas)
AMinuscula == [c \in LetrasMayusculas |-> Minusculas[Indice(c, Mayusculas)]]
AMayuscula == [c \in LetrasMinusculas |-> Mayusculas[Indice(c, Minusculas)]]
EsLetra(c) == c \in LetrasMinusculas \/ c \in LetrasMayusculas
LowerChar(c) == IF c \in LetrasMayusculas THEN AMinuscula[c] ELSE c
UpperChar(c) == IF c \in LetrasMinusculas THEN AMayuscula[c] ELSE c

\* str.lower()
lower(s) == [i \in DOMAIN s |-> LowerChar(s[i])]

\* str.title(): a letter that follows a letter is lowered, any other letter
\* is raised
title(s) ==
    [i \in DOMAIN s |->
        IF i > 1 /\ EsLetra(s[i - 1]) THEN LowerChar(s[i]) ELSE UpperChar(s[i])]

\* str.strip()
strip(s) ==
    LET noEsp == {i \in DOMAIN s : s[i] \notin Espacios}
    IN  IF noEsp = {} THEN <<>>
        ELSE LET a == CHOOSE i \in noEsp : \A j \in noEsp : i <= j
                 b == CHOOSE i \in noEsp : \A j \in noEsp : i >= j
             IN  SubSeq(s, a, b)

\* str(n) for an int n
RECURSIVE StrNat(_)
StrNat(n) == IF n < 10 THEN <<Digitos[n + 1]>>
             ELSE StrNat(n \div 10) \o <<Digitos[(n % 10) + 1]>>
str(n) == IF n < 0 THEN <<"-">> \o StrNat(0 - n) ELSE StrNat(n)

\* int(s) for a str s: surrounding whitespace is dropped, one sign is
\* allowed, the rest must be decimal digits; anything else raises ValueError
\* a digit parser that is off by one in the value of a digit
RECURSIVE ValorDigitos_mut(_)
ValorDigitos_mut(s) ==
    IF s = <<>> THEN 0
    ELSE 10 * ValorDigitos_mut(SubSeq(s, 1, Len(s) - 1)) + Indice(s[Len(s)], Digitos)
RECURSIVE ValorDigitos(_)
ValorDigitos(s) ==
    IF s = <<>> THEN 0
    ELSE 10 * ValorDigitos(SubSeq(s, 1, Len(s) - 1)) + (Indice(s[Len(s)], Digitos) - 1)
CaracteresDigito == Rango(Digitos)
EsDigitos(s) == s # <<>> /\ \A i \in DOMAIN s : s[i] \in CaracteresDigito
int(s) ==
    LET t == strip(s)
        signo == t # <<>> /\ t[1] \in {"+", "-"}
        d == IF signo THEN Tail(t) ELSE t
    IN  IF ~EsDigitos(d) THEN [ok |-> FALSE, v |-> 0]
        ELSE [ok |-> TRUE,
              v |-> IF signo /\ t[1] = "-" THEN 0 - ValorDigitos(d) ELSE ValorDigitos(d)]

\* ------------------------------------------------------------ dict methods
Claves(d) == {d[i].id : i \in DOMAIN d}
Posicion(d, k) == CHOOSE i \in DOMAIN d : d[i].id = k
Obtener(d, k) == d[Posicion(d, k)].datos
\* d[k] = v
Asignar(d, k, v) ==
    IF k \in Claves(d)
    THEN [d EXCEPT ![Posicion(d, k)] = [id |-> k, datos |-> v]]
    ELSE Append(d, [id |-> k, datos |-> v])
Maximo(S) == CHOOSE m \in S : \A n \in S : n <= m

\* ------------------------------------------------------------------ inputs
\* datetime.now(), as the three strings the code formats from it
Instantes == {[ym |-> "2025-06", d |-> "14", hm |-> "10:30"]}
FechaDia(t) == <<t.ym, t.d>>
FechaMinuto(t) == <<t.ym, t.d, t.hm>>
FechaMes(t) == t.ym

\* outcome of guardar_datos: the document is written, or the write fails
\* after open() has truncated the file
ResultadosIO == {"ok", "error_escribir"}

Ninguna == [clase |-> "ninguna", msg |-> ""]
ValueError(m) == [clase |-> "ValueError", msg |-> m]

\* ------------------------------------------------- SistemaClientes.__init__
PreciosIniciales ==
    [k \in {<<"a","l","u","m","i","n","i","o">>, <<"p","a","p","e","l">>,
            <<"p","l","a","s","t","i","c","o">>, <<"p","l","á","s","t","i","c","o">>,
            <<"v","i","d","r","i","o">>, <<"c","a","r","t","o","n">>,
            <<"c","a","r","t","ó","n">>, <<"m","e","t","a","l">>,
            <<"c","o","b","r","e">>} |->
        CASE k = <<"a","l","u","m","i","n","i","o">> -> 250
          [] k = <<"p","a","p","e","l">> -> 30
          [] k = <<"p","l","a","s","t","i","c","o">> -> 80
          [] k = <<"p","l","á","s","t","i","c","o">> -> 80
          [] k = <<"v","i","d","r","i","o">> -> 50
          [] k = <<"c","a","r","t","o","n">> -> 25
          [] k = <<"c","a","r","t","ó","n">> -> 25
          [] k = <<"m","e","t","a","l">> -> 150
          [] OTHER -> 800]
PrecioDefault == 50

\* ------------------------------------------------------------- persistence
Ausente == [tipo |-> "ausente", pares |-> <<>>]
Parcial == [tipo |-> "parcial", pares |-> <<>>]
Ilegible == [tipo |-> "ilegible", pares |-> <<>>]
Documento(pares) == [tipo |-> "documento", pares |-> pares]

\* json.dump(self.clientes): a JSON object whose keys are str(id), in order
Serializar(cl) == [i \in DOMAIN cl |-> [clave |-> str(cl[i].id), valor |-> cl[i].datos]]

\* a save that never reaches the file
guardar_datos_mut(cl, arch, io) == arch
\* guardar_datos: the file after the call
guardar_datos(cl, arch, io) ==
    IF io = "ok" THEN Documento(Serializar(cl)) ELSE Parcial

\* an except clause that lets the failure of the write through
guardar_datos_exc_mut(io) ==
    IF io = "ok" THEN Ninguna ELSE [clase |-> "OSError", msg |-> "guardar"]
\* guardar_datos: the exception that leaves the call. except Exception
\* catches the failure of open() or json.dump and prints it
guardar_datos_exc(io) == Ninguna

\* {int(k): v for k, v in data.items()}
RECURSIVE Deserializar(_)
Deserializar(pares) ==
    IF pares = <<>> THEN <<>>
    ELSE LET p == pares[Len(pares)]
         IN  Asignar(Deserializar(SubSeq(pares, 1, Len(pares) - 1)), int(p.clave).v, p.valor)

\* cargar_datos on a freshly constructed object (self.clientes = {})
cargar_datos(arch) ==
    CASE arch.tipo = "ausente" -> <<>>
      [] arch.tipo = "parcial" -> <<>>
      [] arch.tipo = "ilegible" -> <<>>
      [] OTHER -> IF \A i \in DOMAIN arch.pares : int(arch.pares[i].clave).ok
                  THEN Deserializar(arch.pares)
                  ELSE <<>>

\* an except clause that lets a failure of open(), json.load or int() through
cargar_datos_exc_mut(arch) ==
    CASE arch.tipo = "ausente" -> Ninguna
      [] arch.tipo = "parcial" -> [clase |-> "JSONDecodeError", msg |-> "cargar"]
      [] arch.tipo = "ilegible" -> [clase |-> "OSError", msg |-> "cargar"]
      [] OTHER -> IF \A i \in DOMAIN arch.pares : int(arch.pares[i].clave).ok
                  THEN Ninguna
                  ELSE ValueError("int")
\* cargar_datos: the exception that leaves the call. except Exception catches
\* whatever open(), json.load or int() raised and prints it
cargar_datos_exc(arch) == Ninguna

\* ---------------------------------------------------------- agregar_cliente
\* an id that forgets the + 1 once the ledger has entries
IdNuevo_mut(cl) == IF cl = <<>> THEN 1 ELSE Maximo(Claves(cl))
IdNuevo(cl) == (IF cl = <<>> THEN 0 ELSE Maximo(Claves(cl))) + 1

ClienteNuevo(nombre, telefono, direccion, ahora) ==
    [nombre |-> title(strip(nombre)),
     telefono |-> strip(telefono),
     direccion |-> strip(direccion),
     fecha_registro |-> FechaDia(ahora),
     compras_totales |-> 0,
     peso_total |-> 0,
     num_transacciones |-> 0,
     historial |-> <<>>,
     activo |-> TRUE]

TelefonoCoincide(datos, telefono) == datos.telefono = telefono

agregar_cliente(cl, arch, nombre, telefono, direccion, ahora, io) ==
    IF strip(nombre) = <<>>
    THEN [clientes |-> cl, archivo |-> arch, ret |-> <<>>,
          exc |-> ValueError("nombre vacio"), guardado |-> "no"]
    ELSE LET iguales == {i \in DOMAIN cl : TelefonoCoincide(cl[i].datos, telefono)}
         IN  IF iguales # {}
             THEN [clientes |-> cl, archivo |-> arch,
                   ret |-> <<cl[CHOOSE i \in iguales : \A j \in iguales : i <= j].id>>,
                   exc |-> Ninguna, guardado |-> "no"]
             ELSE LET cliente_id == IdNuevo(cl)
                      nuevos == Asignar(cl, cliente_id,
                                        ClienteNuevo(nombre, telefono, direccion, ahora))
                  IN  [clientes |-> nuevos, archivo |-> guardar_datos(nuevos, arch, io),
                       ret |-> IF guardar_datos_exc(io) = Ninguna THEN <<cliente_id>>
                               ELSE <<>>,
                       exc |-> guardar_datos_exc(io), guardado |-> io]

\* --------------------------------------------------------- registrar_compra
\* a weight check that lets 0 through
PesoRechazado_mut(peso) == peso < 0
PesoRechazado(peso) == peso <= 0

PrecioResuelto(pm, material, precio_kg) ==
    IF precio_kg = <<>>
    THEN IF lower(material) \in DOMAIN pm THEN pm[lower(material)] ELSE PrecioDefault
    ELSE precio_kg[1]

\* an update that forgets the running weight
CompraAplicada_mut(cliente, compra) ==
    [cliente EXCEPT !.historial = Append(@, compra),
                    !.compras_totales = @ + compra.total,
                    !.num_transacciones = @ + 1]
CompraAplicada(cliente, compra) ==
    [cliente EXCEPT !.historial = Append(@, compra),
                    !.compras_totales = @ + compra.total,
                    !.peso_total = @ + compra.peso,
                    !.num_transacciones = @ + 1]

registrar_compra(cl, pm, arch, cliente_id, material, peso, precio_kg, ahora, io) ==
    IF cliente_id \notin Claves(cl)
    THEN [clientes |-> cl, archivo |-> arch, ret |-> <<>>,
          exc |-> ValueError("cliente no encontrado"), guardado |-> "no"]
    ELSE IF PesoRechazado(peso)
    THEN [clientes |-> cl, archivo |-> arch, ret |-> <<>>,
          exc |-> ValueError("peso"), guardado |-> "no"]
    ELSE LET precio == PrecioResuelto(pm, material, precio_kg)
             total == peso * precio
             compra == [fecha |-> FechaMinuto(ahora),
                        material |-> title(material),
                        peso |-> peso,
                        precio_kg |-> precio,
                        total |-> total,
                        mes |-> FechaMes(ahora)]
             nuevos == [cl EXCEPT ![Posicion(cl, cliente_id)].datos = CompraAplicada(@, compra)]
         IN  [clientes |-> nuevos, archivo |-> guardar_datos(nuevos, arch, io),
              ret |-> IF guardar_datos_exc(io) = Ninguna THEN <<total>> ELSE <<>>,
              exc |-> guardar_datos_exc(io), guardado |-> io]

\* ------------------------------------------------------------- top_clientes
TOTAL == <<"t","o","t","a","l">>
PESO == <<"p","e","s","o">>
TRANSACCIONES == <<"t","r","a","n","s","a","c","c","i","o","n","e","s">>
CriteriosMap(criterio) ==
    CASE criterio = TOTAL -> "compras_totales"
      [] criterio = PESO -> "peso_total"
      [] criterio = TRANSACCIONES -> "num_transacciones"
      [] OTHER -> ""
CriterioValido(criterio) == criterio \in {TOTAL, PESO, TRANSACCIONES}

\* sorted(..., key=..., reverse=True): stable, equal keys keep their order
RECURSIVE OrdenarDesc(_, _)
OrdenarDesc(items, campo) ==
    IF items = <<>> THEN <<>>
    ELSE LET x == items[Len(items)]
             previos == OrdenarDesc(SubSeq(items, 1, Len(items) - 1), campo)
             delante == {i \in DOMAIN previos : previos[i].datos[campo] >= x.datos[campo]}
             k == Cardinality(delante)
         IN  SubSeq(previos, 1, k) \o <<x>> \o SubSeq(previos, k + 1, Len(previos))

\* a ranking that forgets the activo filter
Activo_mut(item) == TRUE
Activo(item) == item.datos.activo

\* seq[:limite]
Rebanada(items, limite) ==
    IF limite >= 0
    THEN SubSeq(items, 1, IF limite < Len(items) THEN limite ELSE Len(items))
    ELSE SubSeq(items, 1, IF Len(items) + limite > 0 THEN Len(items) + limite ELSE 0)

\* the rows top_clientes prints, in order
top_clientes(cl, limite, criterio) ==
    IF cl = <<>> THEN <<>>
    ELSE LET crit == IF CriterioValido(criterio) THEN criterio ELSE TOTAL
             campo == CriteriosMap(crit)
             clientes_activos == SelectSeq(cl, Activo)
             clientes_ordenados == OrdenarDesc(clientes_activos, campo)
             mostrados == Rebanada(clientes_ordenados, limite)
         IN  [i \in DOMAIN mostrados |->
                 [id |-> mostrados[i].id,
                  nombre |-> mostrados[i].datos.nombre,
                  valor |-> mostrados[i].datos[campo]]]

\* ----------------------------------------------------------- exportar_datos
FilaCSV(item) ==
    [id |-> item.id, nombre |-> item.datos.nombre, telefono |-> item.datos.telefono,
     direccion |-> item.datos.direccion, fecha_registro |-> item.datos.fecha_registro,
     compras_totales |-> item.datos.compras_totales, peso_total |-> item.datos.peso_total,
     num_transacciones |-> item.datos.num_transacciones]

\* the file written and the outcome; an open() that fails raises OSError
exportar_datos(cl, formato, io) ==
    CASE lower(formato) = <<"j","s","o","n">> ->
            IF io = "ok"
            THEN [ret |-> <<[archivo |-> "backup_clientes.json", contenido |-> Serializar(cl)]>>,
                  exc |-> Ninguna]
            ELSE [ret |-> <<>>, exc |-> [clase |-> "OSError", msg |-> "open"]]
      [] lower(formato) = <<"c","s","v">> ->
            IF io = "ok"
            THEN [ret |-> <<[archivo |-> "reporte_clientes.csv",
                             contenido |-> [i \in DOMAIN cl |-> FilaCSV(cl[i])]]>>,
                  exc |-> Ninguna]
            ELSE [ret |-> <<>>, exc |-> [clase |-> "OSError", msg |-> "open"]]
      [] OTHER -> [ret |-> <<>>, exc |-> [clase |-> "UnboundLocalError", msg |-> "archivo"]]

\* ------------------------------------------------------- configurar_precios
\* float(s), for the lines typed here: integer literals and text that is not
\* a number
float(s) == int(s)
\* a price in currency units, as tenths
Decimos(x) == 10 * x

\* a price check that lets 0 through
PrecioAceptado_mut(nuevo_precio) == nuevo_precio >= 0
PrecioAceptado(nuevo_precio) == nuevo_precio > 0

\* the price table after the dialogue and the message printed
configurar_precios(pm, entrada_material, entrada_precio) ==
    LET material == strip(lower(entrada_material))
    IN  IF material \in DOMAIN pm
        THEN IF ~float(entrada_precio).ok
             THEN [precios |-> pm, ret |-> <<"precio invalido">>]
             ELSE IF PrecioAceptado(Decimos(float(entrada_precio).v))
                  THEN [precios |-> [pm EXCEPT ![material] = Decimos(float(entrada_precio).v)],
                        ret |-> <<"actualizado">>]
                  ELSE [precios |-> pm, ret |-> <<"precio no positivo">>]
        ELSE [precios |-> pm, ret |-> <<"material no encontrado">>]

\* ----------------------------------------------------------- buscar_cliente
\* t in s
Contiene(s, t) ==
    \E i \in 0..Len(s) : i + Len(t) <= Len(s) /\ SubSeq(s, i + 1, i + Len(t)) = t

\* code point order of the characters the inputs use
OrdenCodigo == <<"\t", " ", "+", "-">> \o Digitos \o Mayusculas \o Minusculas
CaracteresOrdenados == Rango(OrdenCodigo)
Ord(c) == IF c \in CaracteresOrdenados THEN Indice(c, OrdenCodigo) ELSE Len(OrdenCodigo) + 1

\* a <= b for str
RECURSIVE MenorIgualStr(_, _)
MenorIgualStr(a, b) ==
    IF a = <<>> THEN TRUE
    ELSE IF b = <<>> THEN FALSE
    ELSE IF a[1] # b[1] THEN Ord(a[1]) < Ord(b[1])
    ELSE MenorIgualStr(Tail(a), Tail(b))

\* list.sort(key=nombre): stable, ascending
RECURSIVE OrdenarPorNombre(_)
OrdenarPorNombre(items) ==
    IF items = <<>> THEN <<>>
    ELSE LET x == items[Len(items)]
             previos == OrdenarPorNombre(SubSeq(items, 1, Len(items) - 1))
             delante == {i \in DOMAIN previos :
                            MenorIgualStr(previos[i].datos.nombre, x.datos.nombre)}
             k == Cardinality(delante)
         IN  SubSeq(previos, 1, k) \o <<x>> \o SubSeq(previos, k + 1, Len(previos))

buscar_cliente(cl, termino) ==
    IF strip(termino) = <<>> THEN <<>>
    ELSE LET termino_lower == strip(lower(termino))
             Coincide(item) ==
                 /\ item.datos.activo
                 /\ \/ Contiene(lower(item.datos.nombre), termino_lower)
                    \/ Contiene(item.datos.telefono, termino)
                    \/ Contiene(lower(item.datos.direccion), termino_lower)
         IN  OrdenarPorNombre(SelectSeq(cl, Coincide))

\* ---------------------------------------------------------- reporte_cliente
\* seq[-5:]
Ultimas5(h) == SubSeq(h, IF Len(h) > 5 THEN Len(h) - 4 ELSE 1, Len(h))

\* the per-material dict built from a history: weight, total and count of
\* each material (or weight and total only), keyed in order of first use
RECURSIVE PorMaterial(_, _)
PorMaterial(h, conCuenta) ==
    IF h = <<>> THEN <<>>
    ELSE LET compra == h[Len(h)]
             d == PorMaterial(SubSeq(h, 1, Len(h) - 1), conCuenta)
             cero == IF conCuenta THEN [peso |-> 0, total |-> 0, count |-> 0]
                     ELSE [peso |-> 0, total |-> 0]
             previo == IF compra.material \in Claves(d) THEN Obtener(d, compra.material) ELSE cero
             sumado == [previo EXCEPT !.peso = @ + compra.peso, !.total = @ + compra.total]
         IN  Asignar(d, compra.material,
                     IF conCuenta THEN [sumado EXCEPT !.count = @ + 1] ELSE sumado)

\* what reporte_cliente prints
reporte_cliente(cl, cliente_id) ==
    IF cliente_id \notin Claves(cl)
    THEN <<"no encontrado">>
    ELSE LET cliente == Obtener(cl, cliente_id)
         IN  <<[cliente_id |-> cliente_id,
                nombre |-> cliente.nombre, telefono |-> cliente.telefono,
                direccion |-> cliente.direccion, fecha_registro |-> cliente.fecha_registro,
                compras_totales |-> cliente.compras_totales,
                peso_total |-> cliente.peso_total,
                num_transacciones |-> cliente.num_transacciones,
                ultimas |-> Ultimas5(cliente.historial),
                analisis |-> OrdenarDesc(PorMaterial(cliente.historial, TRUE), "total")]>>

\* --------------------------------------------------- estadisticas_generales
RECURSIVE Suma(_, _)
Suma(items, campo) ==
    IF items = <<>> THEN 0
    ELSE Suma(SubSeq(items, 1, Len(items) - 1), campo) + items[Len(items)][campo]

RECURSIVE Historiales(_)
Historiales(items) ==
    IF items = <<>> THEN <<>>
    ELSE items[1].datos.historial \o Historiales(Tail(items))

\* what estadisticas_generales prints
estadisticas_generales(cl) ==
    IF cl = <<>> THEN <<"sin datos">>
    ELSE LET clientes_activos == SelectSeq(cl, Activo)
             datos == [i \in DOMAIN clientes_activos |-> clientes_activos[i].datos]
             materiales == OrdenarDesc(PorMaterial(Historiales(clientes_activos), FALSE), "total")
         IN  IF clientes_activos = <<>> THEN <<"sin clientes activos">>
             ELSE <<[total_clientes |-> Len(clientes_activos),
                     ventas_totales |-> Suma(datos, "compras_totales"),
                     peso_total |-> Suma(datos, "peso_total"),
                     transacciones_totales |-> Suma(datos, "num_transacciones"),
                     con_promedios |-> Suma(datos, "num_transacciones") > 0,
                     materiales |-> Rebanada(materiales, 5)]>>

\* ----------------------------------------------------- arguments of calls
Nombres == {<<" ">>, <<" ","a","n","A">>}
\* no two of these phone arguments have the same stripped form, so the phone
\* a record stores tells which argument it was registered with
Telefonos == {<<" ","5","5">>, <<"7">>}
Direcciones == {<<" ","A","v"," ","1">>}
Materiales == {<<"p","a","p","e","l">>, <<"L","A","T","A">>}
Pesos == {-1, 0, 2}
PreciosKg == {<<>>, <<-30>>}
Limites == {-1, 1, 2}
Criterios == {PESO, TRANSACCIONES, <<"n","o","m","b","r","e">>}
EntradasMaterial == {<<" ","P","a","p","e","l"," ">>, <<"l","a","t","a">>}
EntradasPrecio == {<<"4">>, <<"0">>, <<"-","2">>, <<"x">>}
LineasId == {<<"1">>, <<"9">>, <<"x">>}
LineasPeso == {<<"2">>, <<"0">>, <<"x">>}
LineasPrecio == {<<>>, <<"x">>}
LineasLimite == {<<>>, <<"x">>}
LineasCriterio == {PESO}
LineasFormato == {<<"x","m","l">>, <<>>}
LineasTermino == {<<"A","N">>}
Senales == {"KeyboardInterrupt", "EOFError"}
Ids == 1..(MaxClientes + 1)

\* The arguments of agregar_cliente and of registrar_compra. A call that
\* raises before it reads an argument is listed once for that argument: a
\* rejected call never reaches guardar_datos, and a rejected purchase reads
\* neither the material nor the price. A purchase at a price given by the
\* caller does not look its material up, and is listed for one material.
ArgumentosAlta(cl) ==
    {a \in [nombre : Nombres, telefono : Telefonos, direccion : Direcciones,
            ahora : Instantes, io : ResultadosIO] :
        (strip(a.nombre) = <<>> \/ \E i \in DOMAIN cl : cl[i].datos.telefono = a.telefono)
            => a.io = "ok"}
ArgumentosCompra(cl) ==
    {a \in [cliente_id : Ids, material : Materiales, peso : Pesos,
            precio_kg : PreciosKg, ahora : Instantes, io : ResultadosIO] :
        /\ (a.cliente_id \notin Claves(cl) \/ a.peso <= 0)
               => (a.material = <<"p","a","p","e","l">> /\ a.precio_kg = <<>> /\ a.io = "ok")
        /\ a.precio_kg # <<>> => a.material = <<"p","a","p","e","l">>}

\* a ledger file whose second key is not a number
DocumentoClaveMala ==
    Documento(<<[clave |-> <<"1">>,
                 valor |-> ClienteNuevo(<<"e","v","a">>, <<"7">>, <<"A","v"," ","2">>,
                                        [ym |-> "2025-05", d |-> "02", hm |-> "09:00"])],
                [clave |-> <<"x">>,
                 valor |-> ClienteNuevo(<<"l","e","o">>, <<"8">>, <<"A","v"," ","3">>,
                                        [ym |-> "2025-05", d |-> "03", hm |-> "09:00"])]>>)

\* a ledger file left by an earlier session: one customer, deactivated
DocumentoPrevio ==
    Documento(<<[clave |-> <<"1">>,
                 valor |-> [nombre |-> <<"E","v","a">>, telefono |-> <<"7">>,
                            direccion |-> <<"A","v"," ","2">>,
                            fecha_registro |-> <<"2025-05", "02">>,
                            compras_totales |-> 0, peso_total |-> 0,
                            num_transacciones |-> 0, historial |-> <<>>,
                            activo |-> FALSE]]>>)

NumCompras(cl) == Len(Historiales(cl))

\* ------------------------------------------------------------------- state
\* salida: the call that has just returned, what it returned or printed
\* (ret), the exception it raised (exc) and what its guardar_datos did to the
\* file (guardado); SinSalida once the caller has gone on
SinSalida == [op |-> "", ret |-> <<>>, exc |-> Ninguna, guardado |-> "no"]

Init ==
    /\ archivo \in {Ausente, DocumentoPrevio}
    /\ clientes = cargar_datos(archivo)
    /\ precios_materiales = PreciosIniciales
    /\ salida = [op |-> "__init__", ret |-> <<>>, exc |-> cargar_datos_exc(archivo),
                 guardado |-> "no"]
    /\ pc = "menu"

\* the caller has read the outcome of the call and goes on
Siguiente ==
    /\ salida # SinSalida
    /\ salida' = SinSalida
    /\ UNCHANGED <<clientes, precios_materiales, archivo, pc>>

\* ------------------------------------------- calls on the SistemaClientes object
AgregarCliente(nombre, telefono, direccion, ahora, io) ==
    LET r == agregar_cliente(clientes, archivo, nombre, telefono, direccion, ahora, io)
    IN  /\ salida = SinSalida
        /\ Len(r.clientes) <= MaxClientes
        /\ clientes' = r.clientes
        /\ archivo' = r.archivo
        /\ salida' = [op |-> "agregar_cliente", ret |-> r.ret, exc |-> r.exc,
                      guardado |-> r.guardado]
        /\ UNCHANGED <<precios_materiales, pc>>

RegistrarCompra(cliente_id, material, peso, precio_kg, ahora, io) ==
    LET r == registrar_compra(clientes, precios_materiales, archivo,
                              cliente_id, material, peso, precio_kg, ahora, io)
    IN  /\ salida = SinSalida
        /\ NumCompras(r.clientes) <= MaxCompras
        /\ clientes' = r.clientes
        /\ archivo' = r.archivo
        /\ salida' = [op |-> "registrar_compra", ret |-> r.ret, exc |-> r.exc,
                      guardado |-> r.guardado]
        /\ UNCHANGED <<precios_materiales, pc>>

TopClientes(limite, criterio) ==
    /\ salida = SinSalida
    /\ salida' = [op |-> "top_clientes", ret |-> top_clientes(clientes, limite, criterio),
                  exc |-> Ninguna, guardado |-> "no"]
    /\ UNCHANGED <<clientes, precios_materiales, archivo, pc>>

ConfigurarPrecios(entrada_material, entrada_precio) ==
    LET r == configurar_precios(precios_materiales, entrada_material, entrada_precio)
    IN  /\ salida = SinSalida
        /\ precios_materiales' = r.precios
        /\ salida' = [op |-> "configurar_precios", ret |-> r.ret, exc |-> Ninguna,
                      guardado |-> "no"]
        /\ UNCHANGED <<clientes, archivo, pc>>

\* the operations that change the ledger, the price table or the file
Next ==
    \/ \E a \in ArgumentosAlta(clientes) :
          AgregarCliente(a.nombre, a.telefono, a.direccion, a.ahora, a.io)
    \/ \E a \in ArgumentosCompra(clientes) :
          RegistrarCompra(a.cliente_id, a.material, a.peso, a.precio_kg, a.ahora, a.io)
    \/ \E entrada_material \in EntradasMaterial, entrada_precio \in EntradasPrecio :
          ConfigurarPrecios(entrada_material, entrada_precio)
    \/ Siguiente

Spec == Init /\ [][Next]_vars

\* a new SistemaClientes object on the file the last one left: the program is
\* run again
Reiniciar ==
    /\ salida = SinSalida
    /\ clientes' = cargar_datos(archivo)
    /\ precios_materiales' = PreciosIniciales
    /\ salida' = [op |-> "__init__", ret |-> <<>>, exc |-> cargar_datos_exc(archivo),
                  guardado |-> "no"]
    /\ pc' = "menu"
    /\ UNCHANGED archivo

\* the files the first run can find
ArchivosPrevios == {Ausente, Parcial, Ilegible, DocumentoPrevio, DocumentoClaveMala}

InitArranque ==
    /\ archivo \in ArchivosPrevios
    /\ clientes = cargar_datos(archivo)
    /\ precios_materiales = PreciosIniciales
    /\ salida = [op |-> "__init__", ret |-> <<>>, exc |-> cargar_datos_exc(archivo),
                 guardado |-> "no"]
    /\ pc = "menu"

NextArranque ==
    \/ Next
    \/ Reiniciar

SpecArranque == InitArranque /\ [][NextArranque]_vars

\* the same, with the ranking query
NextConsultas ==
    \/ Next
    \/ \E limite \in Limites, criterio \in Criterios : TopClientes(limite, criterio)

SpecConsultas == Init /\ [][NextConsultas]_vars

\* ----------------------------------------------------------- menu_principal
\* One action per turn of the while loop: the option typed, the lines typed at
\* the prompts of that option, the call made, and where control goes next.
\* salida.exc is the exception raised inside the turn, before any handler.

EsException(clase) == clase \in {"ValueError", "UnboundLocalError", "OSError", "EOFError"}

\* the except clauses inside the branch of an option
CapturaInterna(opcion, exc) ==
    CASE opcion = "1" -> exc.clase = "ValueError"
      [] opcion = "2" -> EsException(exc.clase)
      [] opcion = "4" -> exc.clase = "ValueError"
      [] opcion = "5" -> exc.clase = "ValueError"
      [] OTHER -> FALSE

\* a loop that only expects ValueError
ManejadorBucle_mut(exc) ==
    CASE exc = Ninguna -> "menu"
      [] exc.clase = "KeyboardInterrupt" -> "terminado"
      [] exc.clase = "ValueError" -> "menu"
      [] OTHER -> "abortado"
\* the except clauses of the loop: where control is after the turn
ManejadorBucle(exc) ==
    CASE exc = Ninguna -> "menu"
      [] exc.clase = "KeyboardInterrupt" -> "terminado"
      [] EsException(exc.clase) -> "menu"
      [] OTHER -> "abortado"

DespuesDe(opcion, exc) ==
    ManejadorBucle(IF exc # Ninguna /\ CapturaInterna(opcion, exc) THEN Ninguna ELSE exc)

SinCambio(cl, arch, ret, exc) ==
    [clientes |-> cl, archivo |-> arch, ret |-> ret, exc |-> exc, guardado |-> "no"]

\* opcion == "1"
Opcion1(cl, arch, l_nombre, l_telefono, l_direccion, ahora, io) ==
    IF strip(l_nombre) = <<>>
    THEN SinCambio(cl, arch, <<"nombre obligatorio">>, Ninguna)
    ELSE agregar_cliente(cl, arch, strip(l_nombre), strip(l_telefono), strip(l_direccion),
                         ahora, io)

\* opcion == "2"
Opcion2(cl, pm, arch, l_id, l_material, l_peso, l_precio, ahora, io) ==
    IF ~int(l_id).ok THEN SinCambio(cl, arch, <<>>, ValueError("int"))
    ELSE IF int(l_id).v \notin Claves(cl)
    THEN SinCambio(cl, arch, <<"cliente no encontrado">>, Ninguna)
    ELSE IF ~float(l_peso).ok THEN SinCambio(cl, arch, <<>>, ValueError("float"))
    ELSE LET precio_custom == strip(l_precio)
         IN  IF precio_custom # <<>> /\ ~float(precio_custom).ok
             THEN SinCambio(cl, arch, <<>>, ValueError("float"))
             ELSE registrar_compra(cl, pm, arch, int(l_id).v, strip(l_material),
                                   float(l_peso).v,
                                   IF precio_custom = <<>> THEN <<>>
                                   ELSE <<Decimos(float(precio_custom).v)>>,
                                   ahora, io)

\* opcion == "4"
Opcion4(cl, l_id) ==
    IF ~int(l_id).ok THEN [ret |-> <<>>, exc |-> ValueError("int")]
    ELSE [ret |-> reporte_cliente(cl, int(l_id).v), exc |-> Ninguna]

\* opcion == "5": a limit that is not a number gives top_clientes()
Opcion5(cl, l_limite, l_criterio) ==
    LET texto == IF l_limite = <<>> THEN <<"1","0">> ELSE l_limite
    IN  IF ~int(texto).ok
        THEN [ret |-> top_clientes(cl, 10, TOTAL), exc |-> ValueError("int")]
        ELSE [ret |-> top_clientes(cl, int(texto).v,
                                   IF strip(l_criterio) = <<>> THEN TOTAL ELSE strip(l_criterio)),
              exc |-> Ninguna]

\* opcion == "7"
Opcion7(cl, l_formato, io) ==
    exportar_datos(cl, IF lower(strip(l_formato)) = <<>> THEN <<"j","s","o","n">>
                       ELSE lower(strip(l_formato)), io)

Turno(opcion, r) ==
    /\ clientes' = r.clientes
    /\ archivo' = r.archivo
    /\ salida' = [op |-> opcion, ret |-> r.ret, exc |-> r.exc, guardado |-> r.guardado]
    /\ pc' = DespuesDe(opcion, r.exc)
    /\ UNCHANGED precios_materiales

Consulta(opcion, ret, exc) ==
    /\ salida' = [op |-> opcion, ret |-> ret, exc |-> exc, guardado |-> "no"]
    /\ pc' = DespuesDe(opcion, exc)
    /\ UNCHANGED <<clientes, precios_materiales, archivo>>

MenuAgregar(l_nombre, l_telefono, l_direccion, ahora, io) ==
    LET r == Opcion1(clientes, archivo, l_nombre, l_telefono, l_direccion, ahora, io)
    IN  /\ pc = "menu"
        /\ salida = SinSalida
        /\ Len(r.clientes) <= MaxClientes
        /\ Turno("1", r)

MenuCompra(l_id, l_material, l_peso, l_precio, ahora, io) ==
    LET r == Opcion2(clientes, precios_materiales, archivo,
                     l_id, l_material, l_peso, l_precio, ahora, io)
    IN  /\ pc = "menu"
        /\ salida = SinSalida
        /\ NumCompras(r.clientes) <= MaxCompras
        /\ Turno("2", r)

MenuBuscar(l_termino) ==
    /\ pc = "menu"
    /\ salida = SinSalida
    /\ Consulta("3", buscar_cliente(clientes, strip(l_termino)), Ninguna)

MenuReporte(l_id) ==
    /\ pc = "menu"
    /\ salida = SinSalida
    /\ Consulta("4", Opcion4(clientes, l_id).ret, Opcion4(clientes, l_id).exc)

MenuTop(l_limite, l_criterio) ==
    /\ pc = "menu"
    /\ salida = SinSalida
    /\ Consulta("5", Opcion5(clientes, l_limite, l_criterio).ret,
                Opcion5(clientes, l_limite, l_criterio).exc)

MenuEstadisticas ==
    /\ pc = "menu"
    /\ salida = SinSalida
    /\ Consulta("6", estadisticas_generales(clientes), Ninguna)

MenuExportar(l_formato, io) ==
    /\ pc = "menu"
    /\ salida = SinSalida
    /\ Consulta("7", Opcion7(clientes, l_formato, io).ret, Opcion7(clientes, l_formato, io).exc)

MenuPrecios(l_material, l_precio) ==
    LET r == configurar_precios(precios_materiales, l_material, l_precio)
    IN  /\ pc = "menu"
        /\ salida = SinSalida
        /\ precios_materiales' = r.precios
        /\ salida' = [op |-> "8", ret |-> r.ret, exc |-> Ninguna, guardado |-> "no"]
        /\ pc' = DespuesDe("8", Ninguna)
        /\ UNCHANGED <<clientes, archivo>>

\* opcion == "9": break
MenuSalir ==
    /\ pc = "menu"
    /\ salida = SinSalida
    /\ salida' = [op |-> "9", ret |-> <<>>, exc |-> Ninguna, guardado |-> "no"]
    /\ pc' = "terminado"
    /\ UNCHANGED <<clientes, precios_materiales, archivo>>

\* any other line
MenuOtra ==
    /\ pc = "menu"
    /\ salida = SinSalida
    /\ Consulta("otra", <<"opcion no valida">>, Ninguna)

\* Ctrl-C, or the end of standard input, at the prompt of the menu
MenuSenal(clase) ==
    /\ pc = "menu"
    /\ salida = SinSalida
    /\ Consulta("prompt", <<>>, [clase |-> clase, msg |-> ""])

\* The lines of a turn. A prompt that the turn never reaches is listed once.
LineasAlta ==
    {a \in [nombre : Nombres, telefono : Telefonos, direccion : Direcciones,
            ahora : Instantes, io : ResultadosIO] :
        (strip(a.nombre) = <<>> \/ \E i \in DOMAIN clientes :
                                      clientes[i].datos.telefono = strip(a.telefono))
            => a.io = "ok"}
LineasCompra ==
    {a \in [id : LineasId, material : Materiales, peso : LineasPeso,
            precio : LineasPrecio, ahora : Instantes, io : ResultadosIO] :
        /\ (~int(a.id).ok \/ int(a.id).v \notin Claves(clientes))
               => (a.peso = <<"2">> /\ a.material = <<"p","a","p","e","l">>)
        /\ (~int(a.id).ok \/ int(a.id).v \notin Claves(clientes) \/ ~float(a.peso).ok)
               => a.precio = <<>>
        /\ (\/ ~int(a.id).ok \/ int(a.id).v \notin Claves(clientes)
            \/ ~float(a.peso).ok \/ float(a.peso).v <= 0
            \/ (a.precio # <<>> /\ ~float(a.precio).ok))
               => a.io = "ok"}

NextMenu ==
    \/ \E a \in LineasAlta : MenuAgregar(a.nombre, a.telefono, a.direccion, a.ahora, a.io)
    \/ \E a \in LineasCompra : MenuCompra(a.id, a.material, a.peso, a.precio, a.ahora, a.io)
    \/ \E l_termino \in LineasTermino : MenuBuscar(l_termino)
    \/ \E l_id \in LineasId : MenuReporte(l_id)
    \/ \E l_limite \in LineasLimite, l_criterio \in LineasCriterio : MenuTop(l_limite, l_criterio)
    \/ MenuEstadisticas
    \/ \E l_formato \in LineasFormato, io \in {"ok", "error_abrir"} : MenuExportar(l_formato, io)
    \/ \E l_material \in EntradasMaterial, l_precio \in EntradasPrecio :
          MenuPrecios(l_material, l_precio)
    \/ MenuSalir
    \/ MenuOtra
    \/ \E clase \in Senales : MenuSenal(clase)
    \/ Siguiente

SpecMenu == Init /\ [][NextMenu]_vars

\* =================================================================== claims
Papel == <<"p","a","p","e","l">>

\* C1: every customer's compras_totales, peso_total and num_transacciones are
\* the sum of the totals, the sum of the weights and the length of its
\* historial, in every state the calls can reach.
C1_Agregados ==
    \A i \in DOMAIN clientes :
        LET c == clientes[i].datos
        IN  /\ c.compras_totales = Suma(c.historial, "total")
            /\ c.peso_total = Suma(c.historial, "peso")
            /\ c.num_transacciones = Len(c.historial)
\* a customer with two purchases on record
C1_Testigo ==
    /\ salida.op = "registrar_compra"
    /\ \E i \in DOMAIN clientes : Len(clientes[i].datos.historial) = 2

\* C2: agregar_cliente with a non-empty name and a phone argument that an
\* existing customer was registered with returns that customer's id and
\* leaves the ledger as it was. (A record registered with phone argument t
\* stores strip(t).)
C2_TelefonoRepetido ==
    [][salida'.op = "agregar_cliente" =>
       \A a \in ArgumentosAlta(clientes) :
          (/\ strip(a.nombre) # <<>>
           /\ \E i \in DOMAIN clientes : clientes[i].datos.telefono = strip(a.telefono)
           /\ AgregarCliente(a.nombre, a.telefono, a.direccion, a.ahora, a.io))
          => /\ clientes' = clientes
             /\ \E i \in DOMAIN clientes :
                   /\ clientes[i].datos.telefono = strip(a.telefono)
                   /\ salida'.ret = <<clientes[i].id>>]_vars

\* C3: a registrar_compra that is rejected changes nothing: an id that is not
\* in the ledger raises the not-found ValueError, a weight <= 0 raises
\* ValueError, and the ledger, the price table and the file stay as they were.
C3_RechazoSinCambios ==
    [][salida'.op = "registrar_compra" =>
       \A a \in ArgumentosCompra(clientes) :
          (/\ (a.cliente_id \notin Claves(clientes) \/ a.peso <= 0)
           /\ RegistrarCompra(a.cliente_id, a.material, a.peso, a.precio_kg, a.ahora, a.io))
          => /\ salida'.exc.clase = "ValueError"
             /\ a.cliente_id \notin Claves(clientes)
                    => salida'.exc = ValueError("cliente no encontrado")
             /\ a.cliente_id \in Claves(clientes) => salida'.exc = ValueError("peso")
             /\ clientes' = clientes
             /\ precios_materiales' = precios_materiales
             /\ archivo' = archivo]_vars
\* a purchase of weight <= 0 was rejected for a customer that has a history
\* and a saved ledger file
C3_Testigo ==
    /\ salida.op = "registrar_compra"
    /\ salida.exc = ValueError("peso")
    /\ NumCompras(clientes) > 0
    /\ archivo.tipo = "documento"

\* C4 as stated: every operation that changes the ledger or the price table
\* rewrites the file before it returns, and after a successful write the file
\* holds the ledger.
C4_TodaMutacionGuarda ==
    [][(clientes' # clientes \/ precios_materiales' # precios_materiales)
          => /\ salida'.guardado # "no"
             /\ salida'.guardado = "ok" => archivo' = Documento(Serializar(clientes'))]_vars
\* C4 as amended: an operation that changes the ledger rewrites the file
\* before it returns, and after a successful write the file holds the ledger;
\* a price update writes nothing and leaves the file as it was.
C4_MutacionDelLibroGuarda ==
    [][/\ clientes' # clientes
          => /\ salida'.guardado # "no"
             /\ salida'.guardado = "ok" => archivo' = Documento(Serializar(clientes'))
       /\ precios_materiales' # precios_materiales
          => /\ salida'.guardado = "no"
             /\ archivo' = archivo]_vars
\* a purchase was recorded and written after a price had been updated
C4_Testigo ==
    /\ salida.op = "registrar_compra"
    /\ salida.guardado = "ok"
    /\ archivo = Documento(Serializar(clientes))
    /\ precios_materiales # PreciosIniciales

\* C5: every purchase on record has precio_kg > 0 and total > 0, and every
\* customer's compras_totales and peso_total are >= 0.
C5_PreciosPositivos ==
    \A i \in DOMAIN clientes :
        LET c == clientes[i].datos
        IN  /\ \A j \in DOMAIN c.historial :
                  c.historial[j].precio_kg > 0 /\ c.historial[j].total > 0
            /\ c.compras_totales >= 0
            /\ c.peso_total >= 0

\* C6: after a successful save, loading the file gives a ledger with the same
\* integer ids, the same fields for each customer and the same history order.
C6_IdaYVuelta ==
    salida.guardado = "ok" =>
        LET leido == cargar_datos(archivo)
        IN  /\ Claves(leido) = Claves(clientes)
            /\ Len(leido) = Len(clientes)
            /\ \A k \in Claves(clientes) : Obtener(leido, k) = Obtener(clientes, k)
\* two customers and two purchases were saved
C6_Testigo ==
    /\ salida.guardado = "ok"
    /\ Len(clientes) = 2
    /\ NumCompras(clientes) = 2

\* C7: ids are distinct positive integers; a new record gets max(ids) + 1, or
\* 1 in an empty ledger; no step removes a record, gives its id to another
\* customer or changes its id.
C7_Ids ==
    [][/\ \A i \in DOMAIN clientes :
             /\ i \in DOMAIN clientes'
             /\ clientes'[i].id = clientes[i].id
             /\ clientes'[i].datos.nombre = clientes[i].datos.nombre
             /\ clientes'[i].datos.telefono = clientes[i].datos.telefono
             /\ clientes'[i].datos.fecha_registro = clientes[i].datos.fecha_registro
       /\ \A i, j \in DOMAIN clientes' :
             /\ clientes'[i].id > 0
             /\ i # j => clientes'[i].id # clientes'[j].id
       /\ Len(clientes') > Len(clientes)
             => /\ Len(clientes') = Len(clientes) + 1
                /\ clientes'[Len(clientes')].id =
                       IF clientes = <<>> THEN 1 ELSE Maximo(Claves(clientes)) + 1
                /\ salida'.ret = <<clientes'[Len(clientes')].id>>]_vars
\* a second record was created and got id 2
C7_Testigo ==
    /\ salida.op = "agregar_cliente"
    /\ Len(clientes) = 2
    /\ salida.ret = <<2>>

\* C8 as stated: a price <= 0 leaves the table as it was; a price > 0 is
\* stored, overwriting or inserting, so that looking the material up next
\* returns that price.
C8_FijarPrecio ==
    [][salida'.op = "configurar_precios" =>
       \A em \in EntradasMaterial, ep \in EntradasPrecio :
          (float(ep).ok /\ ConfigurarPrecios(em, ep))
          => IF float(ep).v <= 0
             THEN precios_materiales' = precios_materiales
             ELSE PrecioResuelto(precios_materiales', em, <<>>) = Decimos(float(ep).v)]_vars
\* C8 as amended: the material typed is lowercased and trimmed; if that name
\* is a key of the table and the price is > 0, the entry is overwritten and a
\* lookup of that name returns the price; in every other case (price <= 0,
\* price not a number, name not a key) the table stays as it was, and nothing
\* is inserted.
C8_FijarPrecioExistente ==
    [][salida'.op = "configurar_precios" =>
       \A em \in EntradasMaterial, ep \in EntradasPrecio :
          ConfigurarPrecios(em, ep)
          => LET k == strip(lower(em))
             IN  IF k \in DOMAIN precios_materiales /\ float(ep).ok /\ float(ep).v > 0
                 THEN /\ precios_materiales' =
                             [precios_materiales EXCEPT ![k] = Decimos(float(ep).v)]
                      /\ PrecioResuelto(precios_materiales', k, <<>>) = Decimos(float(ep).v)
                 ELSE precios_materiales' = precios_materiales]_vars
\* the price of papel was overwritten
C8_Testigo ==
    /\ salida.op = "configurar_precios"
    /\ salida.ret = <<"actualizado">>
    /\ precios_materiales[Papel] = 40

\* the metric a ranking by `criterio` orders by
CampoDeRanking(criterio) ==
    CASE criterio = PESO -> "peso_total"
      [] criterio = TRANSACCIONES -> "num_transacciones"
      [] OTHER -> "compras_totales"
IdsActivos(cl) == {cl[i].id : i \in {j \in DOMAIN cl : cl[j].datos.activo}}
\* the rows are distinct active customers with their metric, in descending
\* order, and no customer left out has more than one that is shown
EsCabezaDelRanking(filas, cl, campo) ==
    /\ \A i \in DOMAIN filas :
          /\ filas[i].id \in IdsActivos(cl)
          /\ filas[i].valor = Obtener(cl, filas[i].id)[campo]
          /\ filas[i].nombre = Obtener(cl, filas[i].id).nombre
    /\ \A i, j \in DOMAIN filas :
          /\ i # j => filas[i].id # filas[j].id
          /\ i < j => filas[i].valor >= filas[j].valor
    /\ \A k \in IdsActivos(cl) \ {filas[i].id : i \in DOMAIN filas} :
          \A i \in DOMAIN filas : Obtener(cl, k)[campo] <= filas[i].valor
Minimo2(a, b) == IF a < b THEN a ELSE b
Maximo2(a, b) == IF a > b THEN a ELSE b

\* C9 as stated: for every limit and every criterion the ranking shows active
\* customers only, in descending order of the metric (compras_totales when the
\* criterion is not a valid one), no more than `limite` of them: exactly the
\* first min(limite, number of active customers).
C9_Ranking ==
    [][salida'.op = "top_clientes" =>
       \A limite \in Limites, criterio \in Criterios :
          TopClientes(limite, criterio)
          => /\ EsCabezaDelRanking(salida'.ret, clientes, CampoDeRanking(criterio))
             /\ Len(salida'.ret) <= limite
             /\ Len(salida'.ret) = Minimo2(limite, Cardinality(IdsActivos(clientes)))]_vars
\* C9 as amended: the same for a limit >= 0; for a limit < 0 the ranking
\* shows the first max(n + limite, 0) of the n active customers in that order.
C9_RankingConLimite ==
    [][salida'.op = "top_clientes" =>
       \A limite \in Limites, criterio \in Criterios :
          TopClientes(limite, criterio)
          => LET n == Cardinality(IdsActivos(clientes))
             IN  /\ EsCabezaDelRanking(salida'.ret, clientes, CampoDeRanking(criterio))
                 /\ Len(salida'.ret) = IF limite >= 0 THEN Minimo2(limite, n)
                                       ELSE Maximo2(n + limite, 0)]_vars
\* a ranking of two customers with different totals was shown, cut to one row
C9_Testigo ==
    /\ salida.op = "top_clientes"
    /\ Len(salida.ret) = 1
    /\ Cardinality(IdsActivos(clientes)) = 2
    /\ salida.ret[1].valor = Obtener(clientes, salida.ret[1].id).compras_totales
    /\ \E k \in IdsActivos(clientes) : Obtener(clientes, k).compras_totales < salida.ret[1].valor

\* C10: a turn of the menu loop ends at the menu again, whatever was typed
\* and whatever the call raised; the loop ends only on option 9 or on Ctrl-C,
\* and no exception leaves it.
C10_BucleDelMenu ==
    [][/\ pc' # "abortado"
       /\ pc' # pc => /\ pc = "menu"
                      /\ pc' = "terminado"
                      /\ salida'.op = "9" \/ salida'.exc.clase = "KeyboardInterrupt"
       /\ (pc = "menu" /\ salida'.op # "9" /\ salida'.exc.clase # "KeyboardInterrupt")
             => pc' = "menu"]_vars
\* an export in a format that is not known raised UnboundLocalError, and the
\* menu is up again
C10_Testigo ==
    /\ salida.op = "7"
    /\ salida.exc.clase = "UnboundLocalError"
    /\ pc = "menu"
    /\ clientes # <<>>

\* C11: when the write of guardar_datos fails inside agregar_cliente or
\* registrar_compra, the call raises nothing and returns its normal result
\* (the new id, the total), the ledger in memory holds the new customer or
\* the new purchase, and every customer's aggregates still equal the sums
\* over its historial.
C11_GuardadoFallido ==
    [][salida'.guardado = "error_escribir" =>
       /\ salida'.exc = Ninguna
       /\ salida'.op \in {"agregar_cliente", "registrar_compra"}
       /\ salida'.op = "agregar_cliente" =>
             /\ Len(clientes') = Len(clientes) + 1
             /\ SubSeq(clientes', 1, Len(clientes)) = clientes
             /\ LET n == clientes'[Len(clientes')]
                IN  /\ salida'.ret = <<n.id>>
                    /\ n.id \notin Claves(clientes)
                    /\ n.datos.historial = <<>>
                    /\ n.datos.activo
       /\ salida'.op = "registrar_compra" =>
             /\ Len(clientes') = Len(clientes)
             /\ \E i \in DOMAIN clientes :
                   /\ \A j \in DOMAIN clientes : j # i => clientes'[j] = clientes[j]
                   /\ clientes'[i].id = clientes[i].id
                   /\ Len(clientes'[i].datos.historial) = Len(clientes[i].datos.historial) + 1
                   /\ SubSeq(clientes'[i].datos.historial, 1, Len(clientes[i].datos.historial))
                         = clientes[i].datos.historial
                   /\ LET h == clientes'[i].datos.historial
                      IN  salida'.ret = <<h[Len(h)].total>>
       /\ \A i \in DOMAIN clientes' :
             LET c == clientes'[i].datos
             IN  /\ c.compras_totales = Suma(c.historial, "total")
                 /\ c.peso_total = Suma(c.historial, "peso")
                 /\ c.num_transacciones = Len(c.historial)]_vars
\* a purchase was recorded in memory and its total returned although the
\* write failed and left the file cut short
C11_Testigo ==
    /\ salida.op = "registrar_compra"
    /\ salida.guardado = "error_escribir"
    /\ salida.exc = Ninguna
    /\ salida.ret # <<>>
    /\ archivo = Parcial
    /\ NumCompras(clientes) >= 1

\* C12: the construction of a SistemaClientes raises nothing, and when the
\* file is absent, cannot be read, is not a JSON document, or has a key that
\* int() rejects (even after keys that it accepts), the ledger is empty.
C12_CargaSinExcepcion ==
    salida.op = "__init__" =>
       /\ salida.exc = Ninguna
       /\ (\/ archivo.tipo # "documento"
           \/ \E i \in DOMAIN archivo.pares : ~int(archivo.pares[i].clave).ok)
             => clientes = <<>>
\* the program was started on a file whose first key is a number and whose
\* second is not
C12_Testigo ==
    /\ salida.op = "__init__"
    /\ salida.exc = Ninguna
    /\ clientes = <<>>
    /\ archivo.tipo = "documento"
    /\ Len(archivo.pares) = 2
    /\ int(archivo.pares[1].clave).ok
    /\ ~int(archivo.pares[2].clave).ok

====
